---------------------------- MODULE Spec2Model ----------------------------
(***************************************************************************)
(* Model of beartype.door._doorcls: the TypeHint wrapper hierarchy, its    *)
(* construction (__new__/__init__/_munge_args/_wrap_children), equality    *)
(* (__eq__) and the memoized subhint relation (is_subhint/_is_le_branch).  *)
(*                                                                         *)
(* A raw type hint is a record [sign, origin, args, meta]: what the        *)
(* decomposition helpers (get_hint_pep_sign_or_none,                       *)
(* get_hint_pep_origin_or_none, get_hint_pep_args and the PEP 593 getters) *)
(* report for it.  A TypeHint wrapper is a record of the attributes that   *)
(* __init__ and _munge_args set.  Results of comparisons are "T", "F" or   *)
(* "E" (the call raised), evaluated in Python's order with short-circuit.  *)
(***************************************************************************)
EXTENDS Integers, Sequences, FiniteSets, TLC

VARIABLES
    anyIsClass,   \* build: TRUE iff typing.Any is a class (Python >= 3.11)
    operands,     \* the TypeHint wrappers the caller holds
    memo,         \* cache of the @callable_cached is_subhint methods
    last,         \* the last call made and what it returned
    heap,         \* the wrapper objects built so far, an object's id its index
    newCache,     \* cache of the @callable_cached TypeHint.__new__
    calls         \* every call TypeHint(x) made so far, with what it returned

vars == <<anyIsClass, operands, memo, last, heap, newCache, calls>>

\* The variables of the construction of wrapper objects.
ctor == <<heap, newCache, calls>>

(***************************************************************************)
(* Bounds of the universe of raw hints.                                    *)
(***************************************************************************)
MaxLiteral == 2
MaxMeta == 2

\* No call TypeHint(hint) for a raw hint is made that would leave more than
\* this many wrapper objects.
MaxHeap == 3

(***************************************************************************)
(* Raw hints.                                                              *)
(***************************************************************************)
NoSign == "None"

Raw(sign, origin, args, meta) == [sign |-> sign, origin |-> origin, args |-> args, meta |-> meta]

\* A class used as a hint (typing.Any included: it has no origin and no args).
ClassHint(c) == Raw(IF c = "Any" THEN "HintSignAny" ELSE NoSign, c, <<>>, <<>>)

AnyHint == ClassHint("Any")

\* The "..." object and the "()" object that subscript tuples and callables.
EllipsisArg == Raw("Ellipsis", "Ellipsis", <<>>, <<>>)

EmptyTupleArg == Raw("()", "()", <<>>, <<>>)

\* type(v) of the value v: the value 1 is a Str, every other value is a
\* member of an enumeration that derives from Base.
ValueType(v) == IF v < 0 THEN "int" ELSE IF v = 1 THEN "Str" ELSE "Derived"

\* A value subscripting typing.Literal; origin names the value's class.
Value(v) == Raw("value", ValueType(v), <<>>, <<v>>)

ListHint(x) == Raw("HintSignList", "list", <<x>>, <<>>)

SequenceHint(x) == Raw("HintSignSequence", "Sequence", <<x>>, <<>>)

DictHint(k, v) == Raw("HintSignDict", "dict", <<k, v>>, <<>>)

GeneratorHint(y, s, r) == Raw("HintSignGenerator", "Generator", <<y, s, r>>, <<>>)

TupleHint(xs) == Raw("HintSignTuple", "tuple", xs, <<>>)

TupleEmptyHint == TupleHint(<<EmptyTupleArg>>)

TupleVarHint(x) == TupleHint(<<x, EllipsisArg>>)

CallableHint(params, ret) == Raw("HintSignCallable", "Callable", params \o <<ret>>, <<>>)

CallableAnyArgsHint(ret) == Raw("HintSignCallable", "Callable", <<EllipsisArg, ret>>, <<>>)

LiteralHint(vs) == Raw("HintSignLiteral", "Literal", vs, <<>>)

UnionHint(xs) == Raw("HintSignUnion", "Union", xs, <<>>)

\* Annotated[x, *md]: __origin__ is the metahint; kept by name when that is
\* a class (so that "origin is Any" can be asked), as "alias" otherwise.
AnnotatedHint(x, md) ==
    Raw("HintSignAnnotated", IF x.args = <<>> /\ x.meta = <<>> THEN x.origin ELSE "alias", <<x>>, md)

(***************************************************************************)
(* Construction: TypeHint(hint).                                           *)
(***************************************************************************)
HINT_SIGNS_ORIGIN_ISINSTANCEABLE_ARGS_1 == {"HintSignList", "HintSignSequence"}

HINT_SIGNS_ORIGIN_ISINSTANCEABLE_ARGS_2 == {"HintSignDict"}

HINT_SIGNS_ORIGIN_ISINSTANCEABLE_ARGS_3 == {"HintSignGenerator"}

HINT_SIGNS_UNION == {"HintSignUnion"}

\* HINT_SIGN_TO_TYPEHINT.get(hint_sign), "None" when the sign has no subclass.
HINT_SIGN_TO_TYPEHINT(sign) ==
    CASE sign = "HintSignTuple" -> "_TypeHintTuple"
      [] sign = "HintSignCallable" -> "_TypeHintCallable"
      [] sign = "HintSignLiteral" -> "_TypeHintLiteral"
      [] sign = "HintSignAnnotated" -> "_TypeHintAnnotated"
      [] sign \in HINT_SIGNS_ORIGIN_ISINSTANCEABLE_ARGS_1 -> "_TypeHintOriginIsinstanceableArgs1"
      [] sign \in HINT_SIGNS_ORIGIN_ISINSTANCEABLE_ARGS_2 -> "_TypeHintOriginIsinstanceableArgs2"
      [] sign \in HINT_SIGNS_ORIGIN_ISINSTANCEABLE_ARGS_3 -> "_TypeHintOriginIsinstanceableArgs3"
      [] sign \in HINT_SIGNS_UNION -> "_TypeHintUnion"
      [] OTHER -> "None"

\* isinstance(hint, type) or getattr(hint, "__module__", "") == "typing"
IsTypeOrTyping(hint) == hint.sign \in {NoSign, "HintSignAny"}

\* A variant that goes by the sign alone, whatever the child hints.
TypeHintSubclassBySign(hint) ==
    IF HINT_SIGN_TO_TYPEHINT(hint.sign) = "None" THEN "_TypeHintClass"
    ELSE HINT_SIGN_TO_TYPEHINT(hint.sign)

\* TypeHint.__new__: the subclass instantiated for a raw hint
\* ("unsupported" when BeartypeDoorNonpepException is raised).
TypeHintSubclass(hint) ==
    LET found == HINT_SIGN_TO_TYPEHINT(hint.sign)
        chosen == IF found = "None"
                  THEN IF IsTypeOrTyping(hint) THEN "_TypeHintClass" ELSE "unsupported"
                  ELSE found
    IN  IF chosen = "unsupported" THEN chosen
        ELSE IF Len(hint.args) = 0 THEN "_TypeHintClass"
        ELSE chosen

\* _required_nargs of each subclass.
required_nargs(cls) ==
    CASE cls = "_TypeHintOriginIsinstanceableArgs1" -> 1
      [] cls = "_TypeHintOriginIsinstanceableArgs2" -> 2
      [] cls = "_TypeHintOriginIsinstanceableArgs3" -> 3
      [] OTHER -> -1

ButLast(s) == SubSeq(s, 1, Len(s) - 1)

\* get_hint_pep484585_callable_params(hint): the parameter list, or the
\* one-element <<EllipsisArg>> standing for the Ellipsis object itself.
get_hint_pep484585_callable_params(hint) ==
    IF hint.args[1] = EllipsisArg THEN <<EllipsisArg>> ELSE ButLast(hint.args)

\* _TypeHintSubscripted._munge_args: TRUE when BeartypeDoorException is raised.
IsMalformed(cls, args) == required_nargs(cls) > 0 /\ Len(args) # required_nargs(cls)

\* _munge_args of each subclass: the attributes it sets from self._args.
munge_args(cls, hint) ==
    LET args == hint.args
        base == [args |-> args, takes_any_args |-> FALSE,
                 is_variable_length |-> FALSE, is_empty_tuple |-> FALSE]
    IN  CASE cls = "_TypeHintCallable" ->
               IF Len(args) = 0
               THEN [base EXCEPT !.takes_any_args = TRUE, !.args = <<AnyHint>>]
               ELSE LET call_args == get_hint_pep484585_callable_params(hint)
                    IN  IF call_args = <<EllipsisArg>>
                        THEN [base EXCEPT !.takes_any_args = TRUE,
                                          !.args = <<args[Len(args)]>>]
                        ELSE [base EXCEPT !.args = call_args \o <<args[Len(args)]>>]
          [] cls = "_TypeHintTuple" ->
               IF Len(args) = 0
               THEN [base EXCEPT !.is_variable_length = TRUE, !.args = <<AnyHint>>]
               ELSE IF Len(args) = 1 /\ args[1] = EmptyTupleArg
               THEN [base EXCEPT !.is_empty_tuple = TRUE, !.args = <<>>]
               ELSE IF Len(args) = 2 /\ args[2] = EllipsisArg
               THEN [base EXCEPT !.is_variable_length = TRUE, !.args = <<args[1]>>]
               ELSE base
          [] OTHER -> base

RECURSIVE TypeHint(_)
\* TypeHint(hint): __new__ picks the subclass, __init__ sets the attributes,
\* _munge_args normalises _args and _wrap_children wraps each child.
TypeHint(hint) ==
    LET cls == TypeHintSubclass(hint)
        m == munge_args(cls, hint)
    IN  [cls |-> cls,
         hint |-> hint,
         sign |-> hint.sign,
         origin |-> hint.origin,
         args |-> m.args,
         wrapped |-> IF cls = "_TypeHintLiteral" THEN <<>>
                     ELSE [i \in 1..Len(m.args) |-> TypeHint(m.args[i])],
         takes_any_args |-> m.takes_any_args,
         is_variable_length |-> m.is_variable_length,
         is_empty_tuple |-> m.is_empty_tuple,
         metahint |-> IF cls = "_TypeHintAnnotated" THEN <<TypeHint(hint.args[1])>> ELSE <<>>,
         metadata |-> IF cls = "_TypeHintAnnotated" THEN hint.meta ELSE <<>>]

(***************************************************************************)
(* Builtins and properties.                                                *)
(***************************************************************************)
B2V(b) == IF b THEN "T" ELSE "F"

Res(v, m) == [v |-> v, m |-> m]

\* The classes' inheritance: <<c, d>> when c is a proper subclass of d.
ProperSubclass ==
    {<<"Derived", "Base">>, <<"list", "Sequence">>, <<"tuple", "Sequence">>}

\* issubclass(c, d).  With typing.Any as either argument it raises TypeError
\* where Any is a special form, and compares classes where Any is a class.
IsSubclass(c, d) ==
    IF c = "Any" \/ d = "Any"
    THEN IF anyIsClass THEN B2V(c = d) ELSE "E"
    ELSE B2V(c = d \/ <<c, d>> \in ProperSubclass)

\* isinstance(x, d) for a literal value x; typing.Any always raises TypeError.
IsInstance(x, d) == IF d = "Any" THEN "E" ELSE IsSubclass(x.origin, d)

\* A metadata object is an integer; those that are not positive stand for
\* objects whose __eq__ raises an exception.
RaisesOnEq(x) == x <= 0

\* x == y for two metadata objects inside a tuple comparison: one and the
\* same object is equal to itself without a call of its __eq__.
ObjEq(x, y) ==
    IF x = y THEN "T" ELSE IF RaisesOnEq(x) \/ RaisesOnEq(y) THEN "E" ELSE "F"

RECURSIVE TupleEq(_, _, _)
\* md1 == md2 for tuples, from position i: the first pair of unequal items
\* decides, and the lengths when there is none.
TupleEq(md1, md2, i) ==
    IF i > Len(md1) \/ i > Len(md2) THEN B2V(Len(md1) = Len(md2))
    ELSE IF ObjEq(md1[i], md2[i]) = "T" THEN TupleEq(md1, md2, i + 1)
    ELSE ObjEq(md1[i], md2[i])

\* metadata tuples compared with ==.
MetaEq(md1, md2) == TupleEq(md1, md2, 1)

\* The _is_just_an_origin property of each subclass.
is_just_an_origin(self) ==
    CASE self.cls = "_TypeHintClass" -> TRUE
      [] self.cls = "_TypeHintCallable" ->
            self.takes_any_args /\ self.args[Len(self.args)] = AnyHint
      [] self.cls = "_TypeHintTuple" ->
            self.is_variable_length /\ Len(self.args) > 0 /\ self.args[1] = AnyHint
      [] self.cls \in {"_TypeHintLiteral", "_TypeHintAnnotated"} -> FALSE
      [] OTHER -> \A i \in DOMAIN self.wrapped : self.wrapped[i].origin = "Any"

arg_types(self) == ButLast(self.wrapped)

return_type(self) == self.wrapped[Len(self.wrapped)]

returns_any(self) == self.args[Len(self.args)] = AnyHint

\* The _branches property.
branches(self) == IF self.cls = "_TypeHintUnion" THEN self.wrapped ELSE <<self>>

(***************************************************************************)
(* Equality: TypeHint.__eq__ and _TypeHintAnnotated.__eq__.                *)
(***************************************************************************)
RECURSIVE TypeHint_eq(_, _)
RECURSIVE AllEq(_, _, _)

\* "T" and e2, in Python's order: e2 counts only when e1 is true.
AndThen(e1, e2) == IF e1 = "T" THEN e2 ELSE e1

\* not e
Negate(e) == IF e = "E" THEN "E" ELSE B2V(e = "F")

\* A variant that takes every pair of children for equal.
AllEqAlways(xs, ys, i) == "T"

\* all(self_child == other_child for ... in zip(xs, ys)), from position i.
AllEq(xs, ys, i) ==
    IF i > Len(xs) \/ i > Len(ys) THEN "T"
    ELSE AndThen(TypeHint_eq(xs[i], ys[i]), AllEq(xs, ys, i + 1))

\* _TypeHintAnnotated.__eq__
TypeHint_eq_Annotated(self, other) ==
    IF other.cls # "_TypeHintAnnotated" THEN "F"
    ELSE AndThen(TypeHint_eq(self.metahint[1], other.metahint[1]),
                 MetaEq(self.metadata, other.metadata))

\* self == other: _TypeHintAnnotated.__eq__ or TypeHint.__eq__
TypeHint_eq(self, other) ==
    IF self.cls = "_TypeHintAnnotated" THEN TypeHint_eq_Annotated(self, other)
    ELSE IF is_just_an_origin(self) /\ is_just_an_origin(other)
         THEN B2V(self.origin = other.origin)
         ELSE IF self.sign # other.sign \/ Len(self.wrapped) # Len(other.wrapped)
         THEN "F"
         ELSE AllEq(self.wrapped, other.wrapped, 1)

\* TypeHint.__ne__
TypeHint_ne(self, other) == Negate(TypeHint_eq(self, other))

(***************************************************************************)
(* The memo of @callable_cached: a set of [fn, self, other, v].  A lookup  *)
(* finds an entry whose key has the same hash and is the same object or    *)
(* compares equal; equal raw hints hash alike, and so do some others.      *)
(***************************************************************************)
RECURSIVE RawEq(_, _)
\* hint1 == hint2 for raw hints: unions and literals compare as sets.
RawEq(h1, h2) ==
    /\ h1.sign = h2.sign
    /\ h1.origin = h2.origin
    /\ h1.meta = h2.meta
    /\ IF h1.sign \in {"HintSignUnion", "HintSignLiteral"}
       THEN /\ \A i \in DOMAIN h1.args : \E j \in DOMAIN h2.args : RawEq(h1.args[i], h2.args[j])
            /\ \A j \in DOMAIN h2.args : \E i \in DOMAIN h1.args : RawEq(h1.args[i], h2.args[j])
       ELSE /\ Len(h1.args) = Len(h2.args)
            /\ \A i \in DOMAIN h1.args : RawEq(h1.args[i], h2.args[i])

\* hash(v) for an int v of small magnitude: the value itself, but for -1,
\* which CPython keeps for errors and replaces by -2.
HashInt(v) == IF v = -1 THEN -2 ELSE v

RECURSIVE HashRaw(_)
\* hash(hint) for a raw hint, as what it is computed from: the hashes of
\* the parts of the hint, in order but for unions and literals, which hash
\* the set of their items.  Hints of one hash are equal or have parts whose
\* hashes collide.
HashRaw(h) ==
    [sign   |-> h.sign,
     origin |-> h.origin,
     meta   |-> IF h.sign = "value" THEN <<HashInt(h.meta[1])>> ELSE h.meta,
     args   |-> IF h.sign \in {"HintSignUnion", "HintSignLiteral"}
                THEN {<<0, HashRaw(h.args[i])>> : i \in DOMAIN h.args}
                ELSE {<<i, HashRaw(h.args[i])>> : i \in DOMAIN h.args}]

\* TypeHint.__hash__ is hash(self._hint): k1 and k2 are one key of the
\* memo's dict when their hashes agree and they are one object or equal.
KeyEq(k1, k2) ==
    HashRaw(k1.hint) = HashRaw(k2.hint) /\ (k1 = k2 \/ TypeHint_eq(k1, k2) = "T")

\* The function whose cache a call self.is_subhint(...) uses.
CachedFn(self) ==
    IF self.cls \in {"_TypeHintLiteral", "_TypeHintUnion"} THEN self.cls ELSE "TypeHint"

MemoHits(self, other, m) ==
    {e \in m : e.fn = CachedFn(self) /\ KeyEq(e.self, self) /\ KeyEq(e.other, other)}

(***************************************************************************)
(* The subhint relation.  Every operator takes the memo m and returns      *)
(* Res(v, m'): the value and the memo after the call.  A step that goes on *)
(* from the outcome r of a call is an operator of its own, taking r.       *)
(***************************************************************************)
RECURSIVE is_subhint(_, _, _)
RECURSIVE is_le_branch(_, _, _)
RECURSIVE AnyIsLeBranch(_, _, _, _)
RECURSIVE AllZipLe(_, _, _, _)
RECURSIVE AllLeOne(_, _, _, _)
RECURSIVE AnyZipGt(_, _, _, _)
RECURSIVE AnyLeBranchOf(_, _, _, _)
RECURSIVE AllBranchesLe(_, _, _, _)
RECURSIVE AllTypeLe(_, _, _, _)

\* TypeHint.__le__ (other is a TypeHint): self.is_subhint(other)
TypeHint_le(self, other, m) == is_subhint(self, other, m)

\* TypeHint.is_superhint
is_superhint(self, other, m) == is_subhint(other, self, m)

\* ... and self != other, after r = self.is_superhint(other)
AndNe(self, other, r) == IF r.v = "T" THEN Res(TypeHint_ne(self, other), r.m) ELSE r

\* TypeHint.__gt__: self.is_superhint(other) and self != other
TypeHint_gt(self, other, m) == AndNe(self, other, is_superhint(self, other, m))

\* any(...) after its element at position i gave r.
AnyIsLeBranchRest(self, bs, i, r) ==
    IF r.v = "F" THEN AnyIsLeBranch(self, bs, i + 1, r.m) ELSE r

\* any(self._is_le_branch(branch) for branch in bs), from position i.
AnyIsLeBranch(self, bs, i, m) ==
    IF i > Len(bs) THEN Res("F", m)
    ELSE AnyIsLeBranchRest(self, bs, i, is_le_branch(self, bs[i], m))

AllZipLeRest(xs, ys, i, r) ==
    IF r.v = "T" THEN AllZipLe(xs, ys, i + 1, r.m) ELSE r

\* all(x <= y for x, y in zip(xs, ys)), from position i.
AllZipLe(xs, ys, i, m) ==
    IF i > Len(xs) \/ i > Len(ys) THEN Res("T", m)
    ELSE AllZipLeRest(xs, ys, i, TypeHint_le(xs[i], ys[i], m))

AllLeOneRest(xs, y, i, r) ==
    IF r.v = "T" THEN AllLeOne(xs, y, i + 1, r.m) ELSE r

\* all(child <= y for child in xs), from position i.
AllLeOne(xs, y, i, m) ==
    IF i > Len(xs) THEN Res("T", m)
    ELSE AllLeOneRest(xs, y, i, TypeHint_le(xs[i], y, m))

AnyZipGtRest(xs, ys, i, r) ==
    IF r.v = "F" THEN AnyZipGt(xs, ys, i + 1, r.m) ELSE r

\* any(x > y for x, y in zip(xs, ys)), from position i.
AnyZipGt(xs, ys, i, m) ==
    IF i > Len(xs) \/ i > Len(ys) THEN Res("F", m)
    ELSE AnyZipGtRest(xs, ys, i, TypeHint_gt(xs[i], ys[i], m))

AnyLeBranchOfRest(x, bs, j, r) ==
    IF r.v = "F" THEN AnyLeBranchOf(x, bs, j + 1, r.m) ELSE r

\* any(x <= other_branch for other_branch in bs), from position j.
AnyLeBranchOf(x, bs, j, m) ==
    IF j > Len(bs) THEN Res("F", m)
    ELSE AnyLeBranchOfRest(x, bs, j, TypeHint_le(x, bs[j], m))

AllBranchesLeRest(xs, bs, i, r) ==
    IF r.v = "T" THEN AllBranchesLe(xs, bs, i + 1, r.m) ELSE r

\* _TypeHintUnion.is_subhint's loop over self._branches, from position i.
AllBranchesLe(xs, bs, i, m) ==
    IF i > Len(xs) THEN Res("T", m)
    ELSE AllBranchesLeRest(xs, bs, i, AnyLeBranchOf(xs[i], bs, 1, m))

AllTypeLeRest(vs, other, i, r) ==
    IF r.v = "T" THEN AllTypeLe(vs, other, i + 1, r.m) ELSE r

\* all(TypeHint(type(arg)) <= other for arg in vs), from position i.
AllTypeLe(vs, other, i, m) ==
    IF i > Len(vs) THEN Res("T", m)
    ELSE AllTypeLeRest(vs, other, i,
                       TypeHint_le(TypeHint(ClassHint(vs[i].origin)), other, m))

RECURSIVE AllIsInstance(_, _, _)
\* all(isinstance(x, origin) for x in vs), from position i.
AllIsInstance(vs, origin, i) ==
    IF i > Len(vs) THEN "T"
    ELSE AndThen(IsInstance(vs[i], origin), AllIsInstance(vs, origin, i + 1))

\* _TypeHintClass._is_le_branch
is_le_branch_Class(self, branch, m) ==
    IF branch.origin = "Any" THEN Res("T", m)
    ELSE IF ~is_just_an_origin(branch) THEN Res("F", m)
    ELSE Res(IsSubclass(self.origin, branch.origin), m)

\* A variant that compares the origins only, never the children.
is_le_branch_OriginsOnly(self, branch, m) ==
    Res(IsSubclass(self.origin, branch.origin), m)

\* _TypeHintSubscripted._is_le_branch
is_le_branch_Subscripted(self, branch, m) ==
    IF is_just_an_origin(branch) THEN Res(IsSubclass(self.origin, branch.origin), m)
    ELSE IF branch.cls # self.cls THEN Res("F", m)
    ELSE IF IsSubclass(self.origin, branch.origin) # "T"
    THEN Res(IsSubclass(self.origin, branch.origin), m)
    ELSE AllZipLe(self.wrapped, branch.wrapped, 1, m)

\* The parameter test of _TypeHintCallable._is_le_branch: "T" when the
\* parameters rule the relation out.
CallableArgsMismatch(self, branch, m) ==
    IF branch.takes_any_args THEN Res("F", m)
    ELSE IF self.takes_any_args THEN Res("T", m)
    ELSE IF Len(arg_types(self)) # Len(arg_types(branch)) THEN Res("T", m)
    ELSE AnyZipGt(arg_types(self), arg_types(branch), 1, m)

\* The return test of _TypeHintCallable._is_le_branch.
CallableReturnLe(self, branch, m) ==
    IF ~returns_any(branch)
    THEN IF returns_any(self) THEN Res("F", m)
         ELSE TypeHint_le(return_type(self), return_type(branch), m)
    ELSE Res("T", m)

\* _TypeHintCallable._is_le_branch after its parameter test gave a.
CallableAfterArgs(self, branch, a) ==
    IF a.v = "T" THEN Res("F", a.m)
    ELSE IF a.v = "E" THEN a
    ELSE CallableReturnLe(self, branch, a.m)

\* _TypeHintCallable._is_le_branch
is_le_branch_Callable(self, branch, m) ==
    IF is_just_an_origin(branch) THEN Res(IsSubclass(self.origin, branch.origin), m)
    ELSE IF branch.cls # "_TypeHintCallable" THEN Res("F", m)
    ELSE IF IsSubclass(self.origin, branch.origin) # "T"
    THEN Res(IsSubclass(self.origin, branch.origin), m)
    ELSE CallableAfterArgs(self, branch, CallableArgsMismatch(self, branch, m))

\* A variant that looks at the first element of self only.
TupleLeVariadicFirstOnly(self, branch, m) ==
    IF self.wrapped = <<>> THEN Res("T", m)
    ELSE TypeHint_le(self.wrapped[1], branch.wrapped[1], m)

\* _TypeHintTuple._is_le_branch, once branch is known to be a variadic tuple.
TupleLeVariadic(self, branch, m) ==
    IF self.is_variable_length
    THEN TypeHint_le(branch.wrapped[1], self.wrapped[1], m)
    ELSE AllLeOne(self.wrapped, branch.wrapped[1], 1, m)

\* _TypeHintTuple._is_le_branch
is_le_branch_Tuple(self, branch, m) ==
    IF is_just_an_origin(branch) THEN Res(IsSubclass(self.origin, branch.origin), m)
    ELSE IF branch.cls # "_TypeHintTuple" THEN Res("F", m)
    ELSE IF is_just_an_origin(self) THEN Res("F", m)
    ELSE IF branch.is_empty_tuple THEN Res(B2V(self.is_empty_tuple), m)
    ELSE IF branch.is_variable_length THEN TupleLeVariadic(self, branch, m)
    ELSE IF self.is_variable_length
    THEN IF ~branch.is_variable_length THEN Res("F", m)
         ELSE TypeHint_le(self.wrapped[1], branch.wrapped[1], m)
    ELSE IF Len(self.args) # Len(branch.args) THEN Res("F", m)
    ELSE AllZipLe(self.wrapped, branch.wrapped, 1, m)

\* ... or len(self._metadata) != len(branch._metadata), after
\* g = (self._metahint > branch._metahint)
OrLenDiffers(self, branch, g) ==
    IF g.v # "F" THEN g
    ELSE Res(B2V(Len(self.metadata) # Len(branch.metadata)), g.m)

\* The test of _TypeHintAnnotated._is_le_branch that rules the relation out.
AnnotatedMismatch(self, branch, m) ==
    OrLenDiffers(self, branch, TypeHint_gt(self.metahint[1], branch.metahint[1], m))

\* with suppress(Exception): return self._metadata == branch._metadata
MetadataEqSuppressed(self, branch) ==
    IF MetaEq(self.metadata, branch.metadata) = "E" THEN "F"
    ELSE MetaEq(self.metadata, branch.metadata)

\* _TypeHintAnnotated._is_le_branch after its first test gave g.
AnnotatedAfterMismatch(self, branch, g) ==
    IF g.v = "E" THEN g
    ELSE IF g.v = "T" THEN Res("F", g.m)
    ELSE Res(MetadataEqSuppressed(self, branch), g.m)

\* _TypeHintAnnotated._is_le_branch
is_le_branch_Annotated(self, branch, m) ==
    IF branch.cls # "_TypeHintAnnotated" THEN is_subhint(self.metahint[1], branch, m)
    ELSE AnnotatedAfterMismatch(self, branch, AnnotatedMismatch(self, branch, m))

\* self._is_le_branch(branch), by the class of self.
is_le_branch(self, branch, m) ==
    CASE self.cls = "_TypeHintClass" -> is_le_branch_Class(self, branch, m)
      [] self.cls = "_TypeHintCallable" -> is_le_branch_Callable(self, branch, m)
      [] self.cls = "_TypeHintTuple" -> is_le_branch_Tuple(self, branch, m)
      [] self.cls = "_TypeHintAnnotated" -> is_le_branch_Annotated(self, branch, m)
      [] self.cls = "_TypeHintUnion" -> Res("E", m)
      [] OTHER -> is_le_branch_Subscripted(self, branch, m)

\* A variant that always compares the classes of the values with other.
is_subhint_LiteralByType(self, other, m) == AllTypeLe(self.args, other, 1, m)

\* _TypeHintLiteral.is_subhint, without its cache
is_subhint_Literal(self, other, m) ==
    IF other.cls = "_TypeHintLiteral"
    THEN Res(B2V(\A i \in DOMAIN self.args : \E j \in DOMAIN other.args : self.args[i] = other.args[j]), m)
    ELSE IF is_just_an_origin(other)
    THEN Res(AllIsInstance(self.args, other.origin, 1), m)
    ELSE AllTypeLe(self.args, other, 1, m)

\* _TypeHintUnion.is_subhint, without its cache
is_subhint_Union(self, other, m) ==
    IF other.cls # "_TypeHintUnion" THEN Res(B2V(other.hint = AnyHint), m)
    ELSE AllBranchesLe(branches(self), branches(other), 1, m)

\* TypeHint.is_subhint, without its cache
is_subhint_TypeHint(self, other, m) == AnyIsLeBranch(self, branches(other), 1, m)

\* The body of the is_subhint method that self's class defines.
is_subhint_body(self, other, m) ==
    CASE self.cls = "_TypeHintLiteral" -> is_subhint_Literal(self, other, m)
      [] self.cls = "_TypeHintUnion" -> is_subhint_Union(self, other, m)
      [] OTHER -> is_subhint_TypeHint(self, other, m)

\* What @callable_cached returns for r, the outcome of the method's body:
\* a computed value is stored; an exception is raised on.
Memoize(self, other, r) ==
    IF r.v = "E" THEN r
    ELSE Res(r.v, r.m \cup {[fn |-> CachedFn(self), self |-> self,
                             other |-> other, v |-> r.v]})

\* self.is_subhint(other) through @callable_cached: a cached value is
\* returned as is, and the method's body runs only without one.
is_subhint(self, other, m) ==
    IF MemoHits(self, other, m) # {}
    THEN Res((CHOOSE e \in MemoHits(self, other, m) : TRUE).v, m)
    ELSE Memoize(self, other, is_subhint_body(self, other, m))

(***************************************************************************)
(* Comparisons as a caller writes them: the right operand is any object.   *)
(* An object that is no wrapper is a record [cls |-> "object", reflected]:  *)
(* reflected is what its own comparison methods return for a wrapper.       *)
(***************************************************************************)
\* isinstance(obj, TypeHint)
IsTypeHint(obj) == obj.cls # "object"

\* die_unless_typehint(obj): raises BeartypeDoorException unless obj is a
\* wrapper.
die_unless_typehint(obj) ==
    IF IsTypeHint(obj) THEN "ok" ELSE "BeartypeDoorException"

\* self.is_subhint(other) and self.is_superhint(other) for any object other.
NamedMethod(op, self, other, m) ==
    IF die_unless_typehint(other) # "ok" THEN Res(die_unless_typehint(other), m)
    ELSE IF op = "is_subhint" THEN is_subhint(self, other, m)
    ELSE is_superhint(self, other, m)

\* TypeHint.__le__, __lt__, __ge__, __gt__ for any object other.
OrderingMethod(op, self, other, m) ==
    IF ~IsTypeHint(other) THEN Res("NotImplemented", m)
    ELSE CASE op = "__le__" -> TypeHint_le(self, other, m)
           [] op = "__lt__" -> AndNe(self, other, is_subhint(self, other, m))
           [] op = "__ge__" -> is_superhint(self, other, m)
           [] op = "__gt__" -> TypeHint_gt(self, other, m)

\* What the interpreter makes of an ordering operator after the method of
\* the left operand returned r: NotImplemented hands over to the reflected
\* method of other, and TypeError is raised when that one returns
\* NotImplemented too.
RichCompare(other, r) ==
    IF r.v # "NotImplemented" THEN r
    ELSE IF other.reflected # "NotImplemented" THEN Res(other.reflected, r.m)
    ELSE Res("TypeError", r.m)

NamedMethods == {"is_subhint", "is_superhint"}

OrderingOperators == {"__le__", "__lt__", "__ge__", "__gt__"}

\* self.op(other) or self op other, as the caller sees it.
Compare(op, self, other, m) ==
    IF op \in NamedMethods THEN NamedMethod(op, self, other, m)
    ELSE RichCompare(other, OrderingMethod(op, self, other, m))

(***************************************************************************)
(* Construction with object identity.  A wrapper object is a record        *)
(* [w, kids] on the heap: w the attributes __init__ gave it last, kids the  *)
(* ids of the wrappers __init__ made of its child hints.  The argument of   *)
(* a call TypeHint(x) is [kind |-> "raw", hint] or [kind |-> "obj", id];    *)
(* st is [heap, cache, calls] and a call returns [st, v], v the id of the   *)
(* object returned.                                                        *)
(***************************************************************************)
RawArg(hint) == [kind |-> "raw", hint |-> hint, id |-> 0]

\* The hint field of an argument that is a wrapper.
NoHint == Raw(NoSign, "none", <<>>, <<>>)

ObjArg(id) == [kind |-> "obj", hint |-> NoHint, id |-> id]

\* hash(x) for the argument x of TypeHint(x): TypeHint.__hash__ for a
\* wrapper.
HashArg(x, st) ==
    IF x.kind = "raw" THEN HashRaw(x.hint) ELSE HashRaw(st.heap[x.id].w.hint)

\* k == x for a key k of the cache and an argument x.  A raw hint and a
\* wrapper are never equal: TypeHint.__eq__ returns False for what is no
\* wrapper.
ArgEq(k, x, st) ==
    /\ k.kind = x.kind
    /\ IF x.kind = "raw" THEN RawEq(k.hint, x.hint)
       ELSE k.id = x.id \/ TypeHint_eq(st.heap[k.id].w, st.heap[x.id].w) = "T"

\* A cache that never finds anything: __new__ without @callable_cached.
NoHits(x, st) == {}

\* The entries of the cache of __new__ that a call TypeHint(x) finds.
NewHits(x, st) ==
    {e \in st.cache : HashArg(e.key, st) = HashArg(x, st) /\ ArgEq(e.key, x, st)}

\* The hints __init__ wraps for a raw hint: its child hints as
\* _wrap_children takes them, then the metahint of an annotated hint.
ChildHints(hint) ==
    [i \in DOMAIN TypeHint(hint).wrapped |-> TypeHint(hint).wrapped[i].hint]
    \o [i \in DOMAIN TypeHint(hint).metahint |-> TypeHint(hint).metahint[i].hint]

\* The state after a call TypeHint(x) returned the object id.
Called(x, id, st) == [st EXCEPT !.calls = @ \cup {[arg |-> x, v |-> id]}]

RECURSIVE TypeHint_call(_, _)
RECURSIVE wrap_children(_, _, _, _)

\* __init__ of the object id for a raw hint, after its children were wrapped
\* with outcome r: the attributes are set, and TypeHint(hint) returns id.
TypeHint_init_done(hint, id, r) ==
    [st |-> Called(RawArg(hint), id,
                   [r.st EXCEPT !.heap[id] = [w |-> TypeHint(hint), kids |-> r.v]]),
     v  |-> id]

\* TypeHint.__init__(self, hint) for a raw hint, self the object id.
TypeHint_init(hint, id, st) ==
    TypeHint_init_done(hint, id, wrap_children(ChildHints(hint), 1, st, <<>>))

\* A new object, not yet initialized.
Blank == [w |-> NoHint, kids |-> <<>>]

\* TypeHint.__new__(cls, hint) for a raw hint without a cache entry: a new
\* object, which the cache keeps; type.__call__ then runs __init__ on it.
TypeHint_new(hint, st) ==
    TypeHint_init(hint, Len(st.heap) + 1,
                  [st EXCEPT !.heap = Append(@, Blank),
                             !.cache = @ \cup {[key |-> RawArg(hint),
                                                obj |-> Len(st.heap) + 1]}])

\* TypeHint(hint) for a raw hint: the cached __new__, then __init__ on the
\* object it returned, found in the cache or not.
TypeHint_call(hint, st) ==
    IF NewHits(RawArg(hint), st) # {}
    THEN TypeHint_init(hint, (CHOOSE e \in NewHits(RawArg(hint), st) : TRUE).obj, st)
    ELSE TypeHint_new(hint, st)

\* tuple(...) of _wrap_children after the child at position i gave r.
wrap_children_rest(hs, i, ids, r) == wrap_children(hs, i + 1, r.st, Append(ids, r.v))

\* tuple(TypeHint(child) for child in hs), from position i.
wrap_children(hs, i, st, ids) ==
    IF i > Len(hs) THEN [st |-> st, v |-> ids]
    ELSE wrap_children_rest(hs, i, ids, TypeHint_call(hs[i], st))

\* TypeHint(d) for a wrapper d, the object id: the cached __new__ returns
\* what the cache holds for d, or d itself, which the cache then keeps;
\* __init__ returns at once.
TypeHint_call_wrapper(id, st) ==
    IF NewHits(ObjArg(id), st) # {}
    THEN [st |-> Called(ObjArg(id), (CHOOSE e \in NewHits(ObjArg(id), st) : TRUE).obj, st),
          v  |-> (CHOOSE e \in NewHits(ObjArg(id), st) : TRUE).obj]
    ELSE [st |-> Called(ObjArg(id), id,
                        [st EXCEPT !.cache = @ \cup {[key |-> ObjArg(id), obj |-> id]}]),
          v  |-> id]

(***************************************************************************)
(* The raw hints the operands are drawn from.                              *)
(***************************************************************************)
Base == ClassHint("Base")

Derived == ClassHint("Derived")

Str == ClassHint("Str")

Classes ==
    {AnyHint, Base, Derived, Str, ClassHint("list"), ClassHint("tuple"),
     ClassHint("Callable")}

\* typing.List, typing.Tuple and typing.Callable, not subscripted: a sign,
\* an origin and no child hints.
BareHints ==
    {Raw("HintSignList", "list", <<>>, <<>>),
     Raw("HintSignTuple", "tuple", <<>>, <<>>),
     Raw("HintSignCallable", "Callable", <<>>, <<>>)}

Subscripteds ==
    {ListHint(Base), ListHint(Derived), ListHint(AnyHint), SequenceHint(Base),
     DictHint(Str, Base), DictHint(Str, Derived), DictHint(Str, AnyHint),
     GeneratorHint(Base, Str, Base), GeneratorHint(Derived, Str, Base)}

Tuples ==
    {TupleEmptyHint, TupleHint(<<Base>>), TupleHint(<<Derived>>),
     TupleVarHint(Base), TupleVarHint(Derived), TupleVarHint(AnyHint),
     TupleHint(<<Base, Str>>), TupleHint(<<Derived, Str>>), TupleHint(<<AnyHint>>)}

Callables ==
    {CallableAnyArgsHint(AnyHint), CallableAnyArgsHint(Base),
     CallableHint(<<>>, Base), CallableHint(<<Base>>, Base),
     CallableHint(<<Derived>>, Base), CallableHint(<<Str>>, Base),
     CallableHint(<<Base>>, Derived), CallableHint(<<Base>>, AnyHint)}

Literals ==
    {LiteralHint(<<Value(i)>>) : i \in 1..MaxLiteral}
    \cup {LiteralHint([i \in 1..MaxLiteral |-> Value(i)])}

Metadatas == {<<i>> : i \in 1..MaxMeta} \cup {[i \in 1..MaxMeta |-> i]}

Annotateds ==
    {AnnotatedHint(Base, md) : md \in Metadatas}
    \cup {AnnotatedHint(Derived, <<1>>), AnnotatedHint(Str, <<1>>),
          AnnotatedHint(UnionHint(<<Base, Str>>), <<1>>),
          AnnotatedHint(ListHint(Base), <<1>>),
          AnnotatedHint(Base, <<0>>), AnnotatedHint(Base, <<-1>>),
          AnnotatedHint(Derived, <<0>>)}

Unions ==
    {UnionHint(<<Base, Str>>), UnionHint(<<Derived, Str>>),
     UnionHint(<<Base, Str, ClassHint("list")>>),
     UnionHint(<<AnyHint, ListHint(Base)>>),
     UnionHint(<<ListHint(Base), Str>>),
     UnionHint(<<AnnotatedHint(Base, <<1>>), Str>>),
     UnionHint(<<LiteralHint(<<Value(1)>>), Base>>)}

Hints == Classes \cup BareHints \cup Subscripteds \cup Tuples \cup Callables
         \cup Literals \cup Annotateds \cup Unions

\* The raw hints of the three-operand specification.
Hints3 ==
    {AnyHint, Base, Derived, ClassHint("list"), ListHint(Base),
     TupleHint(<<Base>>), TupleVarHint(Base), TupleVarHint(Derived),
     UnionHint(<<Base, Str>>)}

\* TypeHint(hint) returns a wrapper: the hint is supported and well formed.
Constructible(hint) ==
    /\ TypeHintSubclass(hint) # "unsupported"
    /\ ~IsMalformed(TypeHintSubclass(hint), hint.args)

(***************************************************************************)
(* The caller: it holds wrappers and compares them.                        *)
(***************************************************************************)
NoCall == [op |-> "none", self |-> 0, other |-> 0, v |-> "none"]

\* No wrapper object was built yet.
NoWrappers == heap = <<>> /\ newCache = {} /\ calls = {}

Init ==
    /\ anyIsClass \in BOOLEAN
    /\ \E h1, h2 \in {h \in Hints : Constructible(h)} :
          operands = <<TypeHint(h1), TypeHint(h2)>>
    /\ memo = {}
    /\ last = NoCall
    /\ NoWrappers

Init3 ==
    /\ anyIsClass \in BOOLEAN
    /\ \E h1, h2, h3 \in {h \in Hints3 : Constructible(h)} :
          operands = <<TypeHint(h1), TypeHint(h2), TypeHint(h3)>>
    /\ memo = {}
    /\ last = NoCall
    /\ NoWrappers

\* operands[i].is_subhint(operands[j])
IsSubhintCall(i, j) ==
    /\ memo' = is_subhint(operands[i], operands[j], memo).m
    /\ last' = [op |-> "is_subhint", self |-> i, other |-> j,
                v |-> is_subhint(operands[i], operands[j], memo).v]
    /\ UNCHANGED <<anyIsClass, operands, ctor>>

\* operands[i].is_superhint(operands[j])
IsSuperhintCall(i, j) ==
    /\ memo' = is_superhint(operands[i], operands[j], memo).m
    /\ last' = [op |-> "is_superhint", self |-> i, other |-> j,
                v |-> is_superhint(operands[i], operands[j], memo).v]
    /\ UNCHANGED <<anyIsClass, operands, ctor>>

\* operands[i] == operands[j]
EqCall(i, j) ==
    /\ last' = [op |-> "__eq__", self |-> i, other |-> j,
                v |-> TypeHint_eq(operands[i], operands[j])]
    /\ UNCHANGED <<anyIsClass, operands, memo, ctor>>

Next ==
    \/ IsSubhintCall(1, 2)
    \/ IsSuperhintCall(1, 2)
    \/ EqCall(1, 2)

Spec == Init /\ [][Next]_vars

Next3 ==
    \/ IsSubhintCall(1, 2)
    \/ IsSubhintCall(2, 3)
    \/ IsSubhintCall(1, 3)

Spec3 == Init3 /\ [][Next3]_vars

\* The hints of a caller that compares wrappers in both directions and with
\* themselves.
HintsMemo ==
    {Base, Derived, Str, ListHint(Base), ListHint(Derived),
     UnionHint(<<Base, Str>>),
     LiteralHint(<<Value(1)>>), LiteralHint(<<Value(2)>>),
     LiteralHint(<<Value(-1)>>), LiteralHint(<<Value(-2)>>),
     ListHint(LiteralHint(<<Value(-1)>>)), ListHint(LiteralHint(<<Value(-2)>>))}

InitMemo ==
    /\ anyIsClass \in BOOLEAN
    /\ \E h1, h2 \in {h \in HintsMemo : Constructible(h)} :
          operands = <<TypeHint(h1), TypeHint(h2)>>
    /\ memo = {}
    /\ last = NoCall
    /\ NoWrappers

NextMemo == \E i, j \in 1..2 : IsSubhintCall(i, j)

SpecMemo == InitMemo /\ [][NextMemo]_vars

\* Objects that are no wrappers: one without comparison methods of its own
\* (a raw hint, say) and two whose methods answer for any operand.
ForeignObjects ==
    {[cls |-> "object", reflected |-> r] : r \in {"NotImplemented", "T", "F"}}

\* The right operands of a caller that passes whatever it holds.
RightOperands ==
    ForeignObjects \cup {TypeHint(h) : h \in {Base, Derived, UnionHint(<<Base, Str>>)}}

InitForeign ==
    /\ anyIsClass \in BOOLEAN
    /\ \E h \in {h \in HintsMemo : Constructible(h)} : \E x \in RightOperands :
          operands = <<TypeHint(h), x>>
    /\ memo = {}
    /\ last = NoCall
    /\ NoWrappers

\* operands[1].op(operands[2]), or operands[1] op operands[2]
CompareCall(op) ==
    /\ memo' = Compare(op, operands[1], operands[2], memo).m
    /\ last' = [op |-> op, self |-> 1, other |-> 2,
                v |-> Compare(op, operands[1], operands[2], memo).v]
    /\ UNCHANGED <<anyIsClass, operands, ctor>>

NextForeign == \E op \in NamedMethods \cup OrderingOperators : CompareCall(op)

SpecForeign == InitForeign /\ [][NextForeign]_vars

\* The raw hints of a caller that builds wrappers.
HintsWrap ==
    {Base, UnionHint(<<Base, Str>>), UnionHint(<<Str, Base>>),
     LiteralHint(<<Value(-1)>>), LiteralHint(<<Value(-2)>>)}

InitWrap ==
    /\ anyIsClass \in BOOLEAN
    /\ operands = <<>>
    /\ memo = {}
    /\ last = NoCall
    /\ NoWrappers

\* The state of the construction, and its variables after a call left st.
CtorState == [heap |-> heap, cache |-> newCache, calls |-> calls]

\* TypeHint(hint) for a raw hint
WrapRaw(hint) ==
    /\ Len(TypeHint_call(hint, CtorState).st.heap) <= MaxHeap
    /\ heap' = TypeHint_call(hint, CtorState).st.heap
    /\ newCache' = TypeHint_call(hint, CtorState).st.cache
    /\ calls' = TypeHint_call(hint, CtorState).st.calls
    /\ last' = [op |-> "TypeHint", self |-> 0, other |-> 0,
                v |-> TypeHint_call(hint, CtorState).v]
    /\ UNCHANGED <<anyIsClass, operands, memo>>

\* TypeHint(d) for the wrapper d that is the object id
WrapWrapper(id) ==
    /\ heap' = TypeHint_call_wrapper(id, CtorState).st.heap
    /\ newCache' = TypeHint_call_wrapper(id, CtorState).st.cache
    /\ calls' = TypeHint_call_wrapper(id, CtorState).st.calls
    /\ last' = [op |-> "TypeHint", self |-> 0, other |-> id,
                v |-> TypeHint_call_wrapper(id, CtorState).v]
    /\ UNCHANGED <<anyIsClass, operands, memo>>

NextWrap ==
    \/ \E hint \in {h \in HintsWrap : Constructible(h)} : WrapRaw(hint)
    \/ \E id \in DOMAIN heap : WrapWrapper(id)

SpecWrap == InitWrap /\ [][NextWrap]_vars

(***************************************************************************)
(* What a state shows of the calls made so far.                            *)
(***************************************************************************)
\* A call self.is_subhint(other) has returned a value: the cache keeps it.
ReturnedFrom(self, other, v) ==
    \E e \in memo : e.fn = CachedFn(self) /\ e.self = self /\ e.other = other /\ e.v = v

\* The last call was operands[i].is_subhint(operands[j]).
LastIsSubhint(i, j) == last.op = "is_subhint" /\ last.self = i /\ last.other = j

\* What a.is_subhint(b) returns when called in the current state.
Le(a, b) == is_subhint(a, b, memo).v

\* all(Le(xs[i], ys[i]) for the positions i of xs: xs and ys as long).
PairwiseLe(xs, ys) == \A i \in DOMAIN xs : Le(xs[i], ys[i]) = "T"

(***************************************************************************)
(* The order laws.                                                         *)
(***************************************************************************)
\* C1: transitivity.  When d1.is_subhint(d2) and d2.is_subhint(d3) have both
\* returned True, d1.is_subhint(d3) returns True.
C1_Transitivity ==
    (/\ LastIsSubhint(1, 3)
     /\ ReturnedFrom(operands[1], operands[2], "T")
     /\ ReturnedFrom(operands[2], operands[3], "T"))
    => last.v = "T"

\* d1 <= d2 and d2 <= d3 have returned True and d1.is_subhint(d3) has been called.
C1_Witness ==
    /\ LastIsSubhint(1, 3)
    /\ ReturnedFrom(operands[1], operands[2], "T")
    /\ ReturnedFrom(operands[2], operands[3], "T")
    /\ operands[1] # operands[2] /\ operands[2] # operands[3]
    /\ last.v = "T"

\* C2: antisymmetry.  When d1.is_subhint(d2) and d2.is_subhint(d1) have both
\* returned True, d1 == d2 returns True.
C2_Antisymmetry ==
    (/\ last.op = "__eq__"
     /\ ReturnedFrom(operands[1], operands[2], "T")
     /\ ReturnedFrom(operands[2], operands[1], "T"))
    => last.v = "T"

\* Two wrappers of different hints are subhints of each other and == was called.
C2_Witness ==
    /\ last.op = "__eq__"
    /\ ReturnedFrom(operands[1], operands[2], "T")
    /\ ReturnedFrom(operands[2], operands[1], "T")
    /\ operands[1].hint # operands[2].hint

\* C3: reflexivity.  d.is_subhint(d) returns True for every wrapper d.
C3_Reflexivity ==
    (LastIsSubhint(1, 2) /\ operands[1] = operands[2]) => last.v = "T"

\* d.is_subhint(d) has returned True for a union d.
C3_Witness ==
    /\ LastIsSubhint(1, 2) /\ operands[1] = operands[2]
    /\ operands[1].cls = "_TypeHintUnion"
    /\ last.v = "T"

(***************************************************************************)
(* The rules of each variant.                                              *)
(***************************************************************************)
\* The callable rule as the documentation states it: parameters are
\* contravariant, the return is covariant.
CallableRule(self, branch) ==
    /\ \/ branch.takes_any_args
       \/ /\ ~self.takes_any_args
          /\ Len(arg_types(self)) = Len(arg_types(branch))
          /\ PairwiseLe(arg_types(branch), arg_types(self))
    /\ \/ returns_any(branch)
       \/ ~returns_any(self) /\ Le(return_type(self), return_type(branch)) = "T"

\* The last call compared a callable with a callable that is not origin-only.
C4_Case ==
    /\ LastIsSubhint(1, 2)
    /\ operands[1].cls = "_TypeHintCallable"
    /\ operands[2].cls = "_TypeHintCallable"
    /\ ~is_just_an_origin(operands[2])

\* C4: callable rule.  For callables self and branch (branch not origin-only),
\* self.is_subhint(branch) is True iff (branch accepts any arguments, or self
\* does not, the parameter counts agree and every self parameter is a
\* superhint of the branch parameter at its position) and (branch returns Any,
\* or self does not and self's return is a subhint of branch's return).
C4_CallableRule ==
    C4_Case => (last.v = "T" <=> CallableRule(operands[1], operands[2]))

\* A callable was found a subhint of another with a parameter each.
C4_Witness ==
    /\ C4_Case
    /\ Len(arg_types(operands[1])) = 1 /\ Len(arg_types(operands[2])) = 1
    /\ operands[1] # operands[2]
    /\ last.v = "T"

\* The last call compared two variadic tuples, the second not origin-only.
C5_Case ==
    /\ LastIsSubhint(1, 2)
    /\ operands[1].cls = "_TypeHintTuple" /\ operands[1].is_variable_length
    /\ operands[2].cls = "_TypeHintTuple" /\ operands[2].is_variable_length
    /\ ~is_just_an_origin(operands[2])

\* C5: variadic tuple covariance.  Tuple[S, ...].is_subhint(Tuple[B, ...]) is
\* True iff S.is_subhint(B) is True.
C5_VariadicCovariance ==
    C5_Case => (last.v = "T" <=> Le(operands[1].wrapped[1], operands[2].wrapped[1]) = "T")

\* Two different variadic tuples were compared and the call returned True.
C5_Witness == C5_Case /\ operands[1] # operands[2] /\ last.v = "T"

\* A tuple wrapper of fixed length (the empty tuple has length 0).
IsFixedTuple(d) == d.cls = "_TypeHintTuple" /\ ~d.is_variable_length

\* A variadic tuple wrapper.
IsVariadicTuple(d) == d.cls = "_TypeHintTuple" /\ d.is_variable_length

\* What the tuple rules give for self.is_subhint(branch), both tuple wrappers
\* and branch not origin-only.
TupleRule(self, branch) ==
    IF branch.is_empty_tuple THEN self.is_empty_tuple
    ELSE IF IsFixedTuple(self) /\ IsVariadicTuple(branch)
    THEN \A i \in DOMAIN self.wrapped : Le(self.wrapped[i], branch.wrapped[1]) = "T"
    ELSE IF IsVariadicTuple(self) /\ IsFixedTuple(branch) THEN FALSE
    ELSE /\ Len(self.wrapped) = Len(branch.wrapped)
         /\ PairwiseLe(self.wrapped, branch.wrapped)

\* Comparing some element of self with some element of branch raises.
ElementRaises(self, branch) ==
    \E i \in DOMAIN self.wrapped : \E j \in DOMAIN branch.wrapped :
        Le(self.wrapped[i], branch.wrapped[j]) = "E"

\* The last call compared two tuple wrappers, not both variadic, the second
\* not origin-only.
C6_Case ==
    /\ LastIsSubhint(1, 2)
    /\ operands[1].cls = "_TypeHintTuple"
    /\ operands[2].cls = "_TypeHintTuple"
    /\ ~is_just_an_origin(operands[2])
    /\ ~(IsVariadicTuple(operands[1]) /\ IsVariadicTuple(operands[2]))

\* C6: fixed versus variadic tuples.  A fixed tuple is a subhint of a variadic
\* tuple iff every element is a subhint of the variadic element; a variadic
\* tuple is never a subhint of a fixed tuple; a fixed tuple is a subhint of a
\* fixed tuple iff the lengths agree and the elements are subhints pairwise;
\* a tuple is a subhint of the empty tuple iff it is the empty tuple.  The
\* call raises only when comparing two elements raises.
C6_FixedVariadic ==
    C6_Case =>
        /\ last.v = "T" <=> TupleRule(operands[1], operands[2])
        /\ last.v = "E" => ElementRaises(operands[1], operands[2])
        /\ IsVariadicTuple(operands[1]) => last.v = "F"
        /\ operands[2].is_empty_tuple => last.v = B2V(operands[1].is_empty_tuple)

\* A fixed tuple of two elements was compared with a variadic tuple.
C6_Witness ==
    /\ C6_Case
    /\ IsFixedTuple(operands[1]) /\ Len(operands[1].wrapped) = 2
    /\ IsVariadicTuple(operands[2])
    /\ last.v = "F"

\* Every branch of self is a subhint of some branch of other.
UnionRule(self, other) ==
    \A i \in DOMAIN self.wrapped : \E j \in DOMAIN other.wrapped :
        Le(self.wrapped[i], other.wrapped[j]) = "T"

\* The sequence s backwards.
Reversed(s) == [i \in 1..Len(s) |-> s[Len(s) + 1 - i]]

\* The wrapper of the union d wraps, its branches written in reverse order,
\* as a process that has not yet wrapped d builds it.
ReversedUnion(d) == TypeHint(UnionHint(Reversed(d.hint.args)))

\* The last call was d.is_subhint(other) for a union d.
C7_Case == LastIsSubhint(1, 2) /\ operands[1].cls = "_TypeHintUnion"

\* C7: union rule.  For a union self, self.is_subhint(other) with other a
\* union is True iff every branch of self is a subhint of some branch of
\* other, and is the same whatever the order of the branches on either side;
\* with other not a union it is True iff other is Any.
C7_UnionRule ==
    C7_Case =>
        IF operands[2].cls = "_TypeHintUnion"
        THEN /\ last.v = "T" <=> UnionRule(operands[1], operands[2])
             /\ last.v = is_subhint(ReversedUnion(operands[1]), operands[2], {}).v
             /\ last.v = is_subhint(operands[1], ReversedUnion(operands[2]), {}).v
        ELSE last.v = B2V(operands[2].hint = AnyHint)

\* A union was found a subhint of a different union.
C7_Witness ==
    /\ C7_Case
    /\ operands[2].cls = "_TypeHintUnion" /\ operands[1] # operands[2]
    /\ last.v = "T"

\* The last call was self.is_subhint(other), self annotated, other not.
C8_Case ==
    /\ LastIsSubhint(1, 2)
    /\ operands[1].cls = "_TypeHintAnnotated"
    /\ operands[2].cls # "_TypeHintAnnotated"

\* C8: annotated transparency.  For an annotated self with metahint M and a
\* non-annotated other (a union included), self.is_subhint(other) returns
\* what M.is_subhint(other) returns.
C8_AnnotatedTransparency ==
    C8_Case => last.v = Le(operands[1].metahint[1], operands[2])

\* An annotated wrapper was found a subhint of a union.
C8_Witness ==
    /\ C8_Case
    /\ operands[2].cls = "_TypeHintUnion"
    /\ last.v = "T"

\* The last call was self.is_subhint(branch), both annotated.
C9_Case ==
    /\ LastIsSubhint(1, 2)
    /\ operands[1].cls = "_TypeHintAnnotated"
    /\ operands[2].cls = "_TypeHintAnnotated"

\* C9: annotated versus annotated.  self.is_subhint(branch) is True iff
\* self's metahint is a subhint of branch's metahint, the metadata are as
\* long and they are equal.
C9_AnnotatedRule ==
    C9_Case =>
        (last.v = "T" <=>
            /\ Le(operands[1].metahint[1], operands[2].metahint[1]) = "T"
            /\ Len(operands[1].metadata) = Len(operands[2].metadata)
            /\ MetaEq(operands[1].metadata, operands[2].metadata) = "T")

\* An annotated wrapper was found a subhint of a different annotated wrapper.
C9_Witness == C9_Case /\ operands[1] # operands[2] /\ last.v = "T"

\* A wrapper of one of the fixed-arity classes.
IsFixedArity(d) ==
    d.cls \in {"_TypeHintOriginIsinstanceableArgs1",
               "_TypeHintOriginIsinstanceableArgs2",
               "_TypeHintOriginIsinstanceableArgs3"}

\* The last call was self.is_subhint(branch), self of fixed arity and branch
\* not a union (its only branch is itself).
C10_Case ==
    /\ LastIsSubhint(1, 2)
    /\ IsFixedArity(operands[1])
    /\ operands[2].cls # "_TypeHintUnion"

\* C10: fixed-arity rule.  For a fixed-arity self and an origin-only branch,
\* self.is_subhint(branch) is issubclass(self's origin, branch's origin);
\* for another branch it is True iff branch is of self's class, self's origin
\* is a subclass of branch's origin and each child of self is a subhint of
\* the child of branch at its position.
C10_FixedArityRule ==
    C10_Case =>
        IF is_just_an_origin(operands[2])
        THEN last.v = IsSubclass(operands[1].origin, operands[2].origin)
        ELSE last.v = "T" <=>
                /\ operands[2].cls = operands[1].cls
                /\ IsSubclass(operands[1].origin, operands[2].origin) = "T"
                /\ PairwiseLe(operands[1].wrapped, operands[2].wrapped)

\* A fixed-arity wrapper was compared with a different wrapper of its class
\* that is not origin-only, and found a subhint.
C10_Witness ==
    /\ C10_Case
    /\ ~is_just_an_origin(operands[2])
    /\ operands[1] # operands[2]
    /\ last.v = "T"

\* The last call was self.is_subhint(other) for a literal self.
C11_Case == LastIsSubhint(1, 2) /\ operands[1].cls = "_TypeHintLiteral"

IsGeneric(d) == d.cls \notin {"_TypeHintLiteral", "_TypeHintAnnotated"}

\* a and b are both origin-only and of the same origin.
SameOrigin(a, b) ==
    is_just_an_origin(a) /\ is_just_an_origin(b) /\ a.origin = b.origin

\* a and b have the same sign, as many children, and equal children pairwise.
SameShape(a, b) ==
    /\ a.sign = b.sign
    /\ Len(a.wrapped) = Len(b.wrapped)
    /\ \A i \in DOMAIN a.wrapped : TypeHint_eq(a.wrapped[i], b.wrapped[i]) = "T"

\* The last call was a == b for two generic wrappers.
C12_Case == last.op = "__eq__" /\ IsGeneric(operands[1]) /\ IsGeneric(operands[2])

\* C12: generic equality, as stated.  For wrappers a, b that are neither
\* literal nor annotated, a == b is True iff (both are origin-only and of the
\* same origin) or (same sign, same number of children, children equal
\* pairwise).
C12_GenericEqualityAsStated ==
    C12_Case =>
        (last.v = "T" <=>
            SameOrigin(operands[1], operands[2]) \/ SameShape(operands[1], operands[2]))

\* C12, amended: when both wrappers are origin-only, a == b is True iff their
\* origins are the same; otherwise it is True iff they have the same sign,
\* the same number of children and pairwise equal children.
C12_GenericEquality ==
    C12_Case =>
        last.v = B2V(IF is_just_an_origin(operands[1]) /\ is_just_an_origin(operands[2])
                     THEN operands[1].origin = operands[2].origin
                     ELSE SameShape(operands[1], operands[2]))

\* Two different wrappers of one sign, the first with children that say
\* something, were compared and found unequal.
C12_Witness ==
    /\ C12_Case
    /\ ~is_just_an_origin(operands[1])
    /\ operands[1].sign = operands[2].sign
    /\ operands[1] # operands[2]
    /\ last.v = "F"

\* The values of a literal wrapper, as a set.
ValueSet(d) == {d.args[i] : i \in DOMAIN d.args}

\* The last call was a == b.
C13_Case == last.op = "__eq__"

\* C13: equality of literals and of annotated wrappers.  Two literal
\* wrappers are equal iff their sets of values are equal; two annotated
\* wrappers are equal iff their metahints are equal and their metadata are
\* equal.
C13_LiteralAnnotatedEquality ==
    C13_Case =>
        /\ (operands[1].cls = "_TypeHintLiteral" /\ operands[2].cls = "_TypeHintLiteral")
              => last.v = B2V(ValueSet(operands[1]) = ValueSet(operands[2]))
        /\ (operands[1].cls = "_TypeHintAnnotated" /\ operands[2].cls = "_TypeHintAnnotated")
              => last.v = B2V(/\ TypeHint_eq(operands[1].metahint[1], operands[2].metahint[1]) = "T"
                              /\ operands[1].metadata = operands[2].metadata)

\* Two annotated wrappers of one metahint and different metadata were
\* compared and found unequal.
C13_Witness ==
    /\ C13_Case
    /\ operands[1].cls = "_TypeHintAnnotated" /\ operands[2].cls = "_TypeHintAnnotated"
    /\ operands[1].metahint = operands[2].metahint
    /\ operands[1].metadata # operands[2].metadata
    /\ last.v = "F"
    /\ last.v = "F"

(***************************************************************************)
(* Construction.                                                           *)
(***************************************************************************)
\* The last call was TypeHint(d) for a wrapper d.
C14_Case == last.op = "TypeHint" /\ last.other # 0

\* C14: idempotent wrapping.  TypeHint(d) for a wrapper d returns d itself.
C14_IdempotentWrapping == C14_Case => last.v = last.other

\* TypeHint(d) returned d for a wrapper d built from a hint with children.
C14_Witness ==
    /\ C14_Case
    /\ last.v = last.other
    /\ heap[last.other].kids # <<>>

\* C15: memoized construction.  Any two calls TypeHint(hint) made so far for
\* equal raw hints, the calls made for child hints included, returned the
\* same object.
C15_MemoizedConstruction ==
    \A c1, c2 \in calls :
        (c1.arg.kind = "raw" /\ c2.arg.kind = "raw" /\ RawEq(c1.arg.hint, c2.arg.hint))
            => c1.v = c2.v

\* A hint was wrapped both as the child of another hint and in a call of its
\* own, after which the other hint has that one object as its child.
C15_Witness ==
    /\ last.op = "TypeHint" /\ last.other = 0
    /\ heap[last.v].kids = <<>>
    /\ \E id \in DOMAIN heap : \E i \in DOMAIN heap[id].kids :
          /\ heap[id].kids[i] = last.v
          /\ id < last.v

\* The first operand wraps a hint that has a sign and no child hints, the
\* second wraps the origin of that hint.
C16_Case ==
    /\ operands[1].hint.sign # NoSign
    /\ operands[1].hint.args = <<>>
    /\ operands[2].hint = ClassHint(operands[1].hint.origin)

\* C16: origin-only absorption.  A hint without child hints is wrapped by
\* _TypeHintClass whatever its sign, and the wrapper is equal to the wrapper
\* of its origin, a subhint of it and a superhint of it.
C16_OriginOnlyAbsorption ==
    C16_Case =>
        /\ operands[1].cls = "_TypeHintClass"
        /\ last.op # "none" => last.v = "T"

\* typing.Tuple was wrapped and found a subhint of the wrapper of tuple.
C16_Witness ==
    /\ C16_Case
    /\ operands[1].hint.sign = "HintSignTuple"
    /\ LastIsSubhint(1, 2)
    /\ last.v = "T"

(***************************************************************************)
(* Branches.                                                               *)
(***************************************************************************)
\* The last call was self.is_subhint(other) for a self that is no union.
C19_Case == LastIsSubhint(1, 2) /\ operands[1].cls # "_TypeHintUnion"

\* C19: existential branch semantics.  For a self that is no union, of any
\* class, self.is_subhint(other) is True iff self is a subhint of some
\* branch of other.
C19_ExistentialBranches ==
    C19_Case =>
        (last.v = "T" <=>
            \E j \in DOMAIN branches(operands[2]) :
                Le(operands[1], branches(operands[2])[j]) = "T")

\* An annotated hint was found a subhint of a union through one of its
\* branches.
C19_Witness ==
    /\ C19_Case
    /\ operands[1].cls = "_TypeHintAnnotated"
    /\ operands[2].cls = "_TypeHintUnion"
    /\ last.v = "T"

(***************************************************************************)
(* The memo of is_subhint.                                                 *)
(***************************************************************************)
\* The last call was an is_subhint that returned a value.
C20_Case == last.op = "is_subhint" /\ last.v # "E"

\* C20: the memo is transparent.  Whatever calls came before, the value
\* self.is_subhint(other) returns is the value the body of the method
\* computes for self and other without a memo.
C20_MemoTransparent ==
    C20_Case =>
        last.v = is_subhint_body(operands[last.self], operands[last.other], {}).v

\* After both directions of a pair of different wrappers were asked, and
\* answered differently, a call returned the value of its own direction.
C20_Witness ==
    /\ C20_Case
    /\ last.self = 2 /\ last.other = 1 /\ last.v = "F"
    /\ operands[1] # operands[2]
    /\ ReturnedFrom(operands[1], operands[2], "T")
    /\ ReturnedFrom(operands[2], operands[1], "F")

(***************************************************************************)
(* Exceptions.                                                             *)
(***************************************************************************)
\* A comparison was made whose right operand is no wrapper.
C17_Case == last.op # "none" /\ ~IsTypeHint(operands[2])

\* C17: is_subhint, is_superhint, <, <=, > and >= with a right operand that
\* is no wrapper raise BeartypeDoorException, whatever the class of self:
\* none returns a value and none raises anything else.
C17_ForeignOperandRejected == C17_Case => last.v = "BeartypeDoorException"

\* is_subhint of a literal wrapper was given an object that is no wrapper and
\* raised BeartypeDoorException.
C17_Witness ==
    /\ C17_Case
    /\ last.op = "is_subhint"
    /\ operands[1].cls = "_TypeHintLiteral"
    /\ last.v = "BeartypeDoorException"

\* A call compared two annotated wrappers whose metadata comparison raises.
C18_Case ==
    /\ last.op # "none"
    /\ operands[1].cls = "_TypeHintAnnotated"
    /\ operands[2].cls = "_TypeHintAnnotated"
    /\ MetaEq(operands[1].metadata, operands[2].metadata) = "E"

\* C18: an exception raised by comparing metadata never leaves a comparison:
\* is_subhint, is_superhint and == return False, the metadata counting as
\* unequal.
C18_MetadataFailuresSwallowed == C18_Case => last.v = "F"

\* is_subhint returned False for annotated wrappers of one metahint whose
\* metadata comparison raises.
C18_Witness ==
    /\ C18_Case
    /\ LastIsSubhint(1, 2)
    /\ operands[1].metahint = operands[2].metahint
    /\ last.v = "F"

(***************************************************************************)
(* Immutability.                                                           *)
(***************************************************************************)
\* C21: immutability after construction.  No call TypeHint(x), for a raw
\* hint or for a wrapper, found in the cache or not, changes an attribute of
\* a wrapper object that an earlier call returned: its class, hint, sign,
\* origin, child hints, flags and the wrappers of its children stay.
C21_Immutability == [][\A id \in DOMAIN heap : heap'[id] = heap[id]]_vars

\* Two calls for raw hints that are equal but not the same returned one
\* object: the later call found the object of the earlier one in the cache.
C21_Witness ==
    \E c1, c2 \in calls :
        /\ c1.arg.kind = "raw" /\ c2.arg.kind = "raw"
        /\ c1.arg.hint # c2.arg.hint
        /\ RawEq(c1.arg.hint, c2.arg.hint)
        /\ c1.v = c2.v

(***************************************************************************)
(* Equality and the order.                                                 *)
(***************************************************************************)
\* C22: equality is consistent with the order.  For wrappers a and b with
\* a == b, a.is_subhint(b) and b.is_subhint(a), which is a.is_superhint(b),
\* both return True.
C22_EqualityWithinOrder ==
    (/\ last.op \in {"is_subhint", "is_superhint"}
     /\ TypeHint_eq(operands[1], operands[2]) = "T")
    => last.v = "T"

\* Two different wrappers that == finds equal were found subhints of one
\* another in the direction asked.
C22_Witness ==
    /\ last.op \in {"is_subhint", "is_superhint"}
    /\ TypeHint_eq(operands[1], operands[2]) = "T"
    /\ operands[1] # operands[2]
    /\ last.v = "T"

=============================================================================
